---- MODULE Spec2Model ----
(***************************************************************************)
(* A model of the brokerage-export scripts of tsiemens/acb:                *)
(*   - py/tx-export-convert.py: QuestradeSheet (the row loop), main        *)
(*     (sort, exchange rate, render);                                      *)
(*   - py/etrade-plan-pdf-tx-extract.py: amend_benefit_sales and           *)
(*     find_and_apply_sell_to_cover_trade_set;                             *)
(*   - py/questrade-statement-fmv.py: parse_pdf, its matchers and states;  *)
(*   - py/txlib.py: AcbCsvRenderer;                                        *)
(*   - the FX-trade pairing of the export converter, whose code is not     *)
(*     among the sources: modelled from its description and from the       *)
(*     outputs pytest/test_tx_export_convert.py expects.                   *)
(* Python values are modelled as follows.  A spreadsheet cell that the     *)
(* code parses (a date, a number) is a record [t, s, v]: t is the Python   *)
(* type ("None", "str", "num"), s the characters of a str, v the value of  *)
(* a number in tenths.  Text that the code only compares or copies (the    *)
(* Action, Symbol and Currency cells) is a TLA+ string, with None for      *)
(* Python's None.  Floats are fixed-point numbers in tenths.               *)
(***************************************************************************)
EXTENDS Integers, Sequences, FiniteSets, TLC

VARIABLES
    \* ---- tx-export-convert.py
    args,          \* the parsed command line: no_sort, usd_exchange_rate, pretty
    sheet_rows,    \* the data rows of the first worksheet (after the header row)
    row_i,         \* the row the loop of QuestradeSheet.__init__ is at
    txs,           \* AcbCsvRenderer.txs
    pc,            \* where main is: "rows", "sort", "rate", "render", "done",
                   \* "raised"; "idle" when the converter is not run
    exc,           \* the uncaught exception that ended the run, or NoExc
    exit_status,   \* the process's exit status once it has ended, else None
    stdout,        \* the rows written to standard output
    \* ---- etrade-plan-pdf-tx-extract.py
    benefits,      \* the caller's list of BenefitEntry objects (amended in place)
    trade_confs,   \* the caller's list of TradeConfirmation objects
    pool,          \* amend_benefit_sales's local copy of trade_confs
    b_i,           \* the benefit the loop of amend_benefit_sales is at
    matched,       \* per benefit handled: what find_and_apply_... returned
    printed,       \* the "Error: ..." lines printed so far
    remaining,     \* the list amend_benefit_sales returned, or <<>> before
    bpc,           \* "loop", "return", "returned"; "idle" when not run
    \* ---- questrade-statement-fmv.py (parse_pdf)
    pages,         \* reader.pages: the pages of the statement
    page_i,        \* the page the page loop is at
    line_i,        \* the line the line loop is at
    state,         \* the SecOwnedState, None before the first table page
    conv,          \* the matcher that accepted last
    accum,         \* the ParseState being filled
    fmvs,          \* the FMV entries built so far
    month,         \* the statement's month, or None
    converted,     \* every <<line, Decimal>> that to_decimal has returned
    fpc,           \* "pages", "lines", "page_end", "returned", "raised";
                   \* "idle" when not run
    fexc,          \* the exception that ended parse_pdf, or NoExc
    fret,          \* what parse_pdf returned, or NoReturn
    \* ---- txlib.py (AcbCsvRenderer and a caller of it)
    lib_txs,       \* AcbCsvRenderer.txs
    lib_errors,    \* AcbCsvRenderer.errors
    lib_stdout,    \* what render_csv or render_table wrote
    lib_stderr,    \* the lines render_errors wrote: one tuple of print's
                   \* arguments per line (print joins them with a space)
    lib_ret,       \* what render_errors returned (once lpc = "done")
    lpc,           \* "build", "sorted", "rendered", "done"; "idle" when not run
    \* ---- the FX-trade pairing of the export converter
    fx_rows,       \* the data rows of the sheet
    fx_i,          \* the row the pairing loop is at
    fx_pending,    \* the FXT legs still waiting for their counterpart
    fx_txs,        \* the output transaction list
    fx_errors,     \* the error list
    xpc            \* "rows", "finish", "done"; "idle" when not run

convVars == <<args, sheet_rows, row_i, txs, pc, exc, exit_status, stdout>>
benVars == <<benefits, trade_confs, pool, b_i, matched, printed, remaining, bpc>>
fmvVars == <<pages, page_i, line_i, state, conv, accum, fmvs, month, converted,
            fpc, fexc, fret>>
libVars == <<lib_txs, lib_errors, lib_stdout, lib_stderr, lib_ret, lpc>>
fxVars == <<fx_rows, fx_i, fx_pending, fx_txs, fx_errors, xpc>>
vars == <<args, sheet_rows, row_i, txs, pc, exc, exit_status, stdout,
          benefits, trade_confs, pool, b_i, matched, printed, remaining, bpc,
          pages, page_i, line_i, state, conv, accum, fmvs, month, converted,
          fpc, fexc, fret,
          lib_txs, lib_errors, lib_stdout, lib_stderr, lib_ret, lpc,
          fx_rows, fx_i, fx_pending, fx_txs, fx_errors, xpc>>

(***************************************************************************)
(* Bounds of the model.                                                    *)
(***************************************************************************)
MaxRows == 2
MaxSortRows == 3
MaxTrades == 3
MaxBenefits == 2
MaxPages == 2
MaxLibTxs == 2
MaxErrors == 2
MaxFxRows == 3
MaxBodyLines == 5
MaxHeaderLines == 3

(***************************************************************************)
(* Python values.                                                          *)
(***************************************************************************)
None == "<None>"
PyNone == [t |-> "None", s |-> <<>>, v |-> 0]
PyStr(chars) == [t |-> "str", s |-> chars, v |-> 0]
PyNum(tenths) == [t |-> "num", s |-> <<>>, v |-> tenths]

Digits == <<"0", "1", "2", "3", "4", "5", "6", "7", "8", "9">>
IsDigit(c) == \E d \in 1..10 : Digits[d] = c
DigitVal(c) == (CHOOSE d \in 1..10 : Digits[d] = c) - 1

\* The code points of the characters the inputs use (str comparison is by code point).
Ord(c) ==
    CASE c = " " -> 32
      [] c = "-" -> 45
      [] c = "." -> 46
      [] IsDigit(c) -> 48 + DigitVal(c)
      [] c = ":" -> 58
      [] c = "A" -> 65
      [] c = "M" -> 77
      [] c = "a" -> 97
      [] c = "b" -> 98
      [] c = "c" -> 99

\* Python's s1 < s2 on str: lexicographic by code point, a proper prefix is smaller.
RECURSIVE StrLess(_, _)
StrLess(s1, s2) ==
    IF s2 = <<>> THEN FALSE
    ELSE IF s1 = <<>> THEN TRUE
    ELSE IF Ord(Head(s1)) # Ord(Head(s2)) THEN Ord(Head(s1)) < Ord(Head(s2))
    ELSE StrLess(Tail(s1), Tail(s2))

Abs(n) == IF n < 0 THEN -n ELSE n

\* int(x) of a float x: truncation toward zero.
IntOfFloat(tenths) ==
    IF tenths >= 0 THEN tenths \div 10 ELSE -((-tenths) \div 10)

RECURSIVE DigitsValue(_, _)
DigitsValue(chars, acc) ==
    IF chars = <<>> THEN acc
    ELSE DigitsValue(Tail(chars), 10 * acc + DigitVal(Head(chars)))

AllDigits(chars) == \A k \in 1..Len(chars) : IsDigit(chars[k])

\* float(s) of a str of the forms -?d+ and -?d+.d (one decimal, the model's
\* resolution); any other text is a ValueError.
ParseFloatStr(chars) ==
    LET neg == chars # <<>> /\ Head(chars) = "-"
        body == IF neg THEN Tail(chars) ELSE chars
        n == Len(body)
        hasDot == n >= 3 /\ body[n - 1] = "."
        whole == IF hasDot THEN SubSeq(body, 1, n - 2) ELSE body
        frac == IF hasDot THEN DigitVal(body[n]) ELSE 0
        ok == /\ whole # <<>>
              /\ AllDigits(whole)
              /\ hasDot => IsDigit(body[n])
        mag == IF ok THEN 10 * DigitsValue(whole, 0) + frac ELSE 0
    IN  [ok |-> ok, v |-> IF neg THEN -mag ELSE mag]

\* float(x) of a cell value: [ok, v] or the exception it raises.
PyFloat(cell) ==
    CASE cell.t = "num" -> [ok |-> TRUE, v |-> cell.v, err |-> None]
      [] cell.t = "None" -> [ok |-> FALSE, v |-> 0, err |-> "TypeError"]
      [] cell.t = "str" ->
            LET p == ParseFloatStr(cell.s)
            IN  [ok |-> p.ok, v |-> p.v,
                 err |-> IF p.ok THEN None ELSE "ValueError"]

(***************************************************************************)
(* tx-export-convert.py: QuestradeSheet.                                   *)
(***************************************************************************)
ignored_actions == {"DIV", "BRW", "TFI", "DEP", None}
allowed_actions == {"Buy", "Sell"}

\* symbol : (alias_to, AKA)
symbol_aliases == [sym \in {"H038778"} |-> <<"DLR.TO", "DLR.U.TO">>]

\* str.upper() on the allowed actions, then the Action enum's value.
ActionValue(action_str) ==
    CASE action_str = "Buy" -> "BUY"
      [] action_str = "Sell" -> "SELL"

NoExc == [type |-> None, text |-> "", arg |-> PyNone]
Raise(type, text, arg) == [type |-> type, text |-> text, arg |-> arg]

\* date_regexp = ^\d{4}-\d{2}-\d{2}
DateRegexpMatches(chars) ==
    /\ Len(chars) >= 10
    /\ \A k \in {1, 2, 3, 4, 6, 7, 9, 10} : IsDigit(chars[k])
    /\ chars[5] = "-"
    /\ chars[8] = "-"

\* convert_date_str: the matched yyyy-mm-dd prefix, or the exception raised
\* (re.match on None is a TypeError).
convert_date_str(qt_date) ==
    IF qt_date.t # "str"
    THEN [ok |-> FALSE, val |-> <<>>,
          exc |-> Raise("TypeError", "expected string or bytes-like object", qt_date)]
    ELSE IF DateRegexpMatches(qt_date.s)
    THEN [ok |-> TRUE, val |-> SubSeq(qt_date.s, 1, 10), exc |-> NoExc]
    ELSE [ok |-> FALSE, val |-> <<>>,
          exc |-> Raise("Exception", "Could not parse date from ", qt_date)]

\* float(x) inside the Tx(...) call: the value or the exception.
FloatOf(cell) ==
    LET f == PyFloat(cell)
    IN  [ok |-> f.ok, val |-> f.v,
         exc |-> IF f.ok THEN NoExc
                 ELSE Raise(f.err, "float() cannot convert ", cell)]

\* A get_quantity_int that forgets the sign of sold shares.
get_quantity_int_unsigned(quant, action) == IntOfFloat(quant)

\* get_quantity_int after float(quant_str) succeeded: quant is that float.
get_quantity_int(quant, action) ==
    IF action = "BUY" THEN IntOfFloat(quant) ELSE -1 * IntOfFloat(quant)

\* An alias lookup that never fires.
ResolveSymbolNoAlias(symbol) ==
    [security |-> symbol, memo |-> <<>>]

\* The alias lookup: the security and the orig_symbol_note (an f-string, kept
\* as the sequence of its pieces; '' is <<>>).
ResolveSymbol(symbol) ==
    IF symbol \in DOMAIN symbol_aliases
    THEN [security |-> symbol_aliases[symbol][1],
          memo |-> <<symbol, " AKA ", symbol_aliases[symbol][2], ". ">>]
    ELSE [security |-> symbol, memo |-> <<>>]

\* One iteration of the row loop of QuestradeSheet.__init__ on data row `row`,
\* the i-th: kind "skip" (continue), "raise" (the exception leaves __init__) or
\* "tx" (the record appended).  The arguments of Tx(...) are evaluated in the
\* order written, so the first failing one decides the exception.  The field
\* `row` of a record is a history field (the index of the row it was built
\* from); no operation reads it.
RowResult(row, i) ==
    LET skip == [kind |-> "skip", exc |-> NoExc, tx |-> PyNone]
        raise(e) == [kind |-> "raise", exc |-> e, tx |-> PyNone]
        action_str == row.Action
    IN
    IF action_str \notin allowed_actions /\ action_str \notin ignored_actions
    THEN raise(Raise("Exception", "Unrecognized transaction action ",
                     PyStr(<<action_str>>)))
    ELSE IF action_str \in ignored_actions THEN skip
    ELSE
      LET action == ActionValue(action_str)
          sym == ResolveSymbol(row.Symbol)
          sd == convert_date_str(row.SettlementDate)
          td == convert_date_str(row.TransactionDate)
          price == FloatOf(row.Price)
          quant == FloatOf(row.Quantity)
          comm == FloatOf(row.Commission)
      IN
      IF ~sd.ok THEN raise(sd.exc)
      ELSE IF ~td.ok THEN raise(td.exc)
      ELSE IF ~price.ok THEN raise(price.exc)
      ELSE IF ~quant.ok THEN raise(quant.exc)
      ELSE IF ~comm.ok THEN raise(comm.exc)
      ELSE [kind |-> "tx", exc |-> NoExc,
            tx |-> [security |-> sym.security,
                    settlement_date |-> sd.val,
                    date_and_time |-> row.SettlementDate.s,
                    transaction_date |-> td.val,
                    action |-> action,
                    amount_per_share |-> price.val,
                    num_shares |-> get_quantity_int(quant.val, action),
                    commission |-> Abs(comm.val),
                    currency |-> row.Currency,
                    memo |-> sym.memo,
                    exchange_rate |-> PyNone,
                    row |-> i]]

(***************************************************************************)
(* tx-export-convert.py: AcbCsvRenderer (the converter's own).             *)
(***************************************************************************)
\* sorted() inserting `tx` into an already sorted prefix, before the elements
\* with a greater key only.
RECURSIVE InsertByKey(_, _)
InsertByKey(sorted, tx) ==
    IF sorted = <<>> THEN <<tx>>
    ELSE IF StrLess(tx.date_and_time, Head(sorted).date_and_time)
    THEN <<tx>> \o sorted
    ELSE <<Head(sorted)>> \o InsertByKey(Tail(sorted), tx)

RECURSIVE SortedFrom(_, _)
SortedFrom(done, todo) ==
    IF todo = <<>> THEN done
    ELSE SortedFrom(InsertByKey(done, Head(todo)), Tail(todo))

\* A sort that puts a record before the records of equal key (not stable).
RECURSIVE InsertBeforeEqual(_, _)
InsertBeforeEqual(sorted, tx) ==
    IF sorted = <<>> THEN <<tx>>
    ELSE IF ~StrLess(Head(sorted).date_and_time, tx.date_and_time)
    THEN <<tx>> \o sorted
    ELSE <<Head(sorted)>> \o InsertBeforeEqual(Tail(sorted), tx)

RECURSIVE UnstableSortedFrom(_, _)
UnstableSortedFrom(done, todo) ==
    IF todo = <<>> THEN done
    ELSE UnstableSortedFrom(InsertBeforeEqual(done, Head(todo)), Tail(todo))

unstable_sort_txs(list) == UnstableSortedFrom(<<>>, list)

\* sort_txs: sorted(self.txs, key=lambda t: t.date_and_time), a stable sort.
sort_txs(list) == SortedFrom(<<>>, list)

RECURSIVE NatChars(_)
NatChars(n) ==
    IF n < 10 THEN <<Digits[n + 1]>>
    ELSE NatChars(n \div 10) \o <<Digits[(n % 10) + 1]>>

\* str(n) of an int.
StrInt(n) == IF n < 0 THEN <<"-">> \o NatChars(-n) ELSE NatChars(n)

\* str(x) of a float with at most one decimal: always with a decimal point.
StrFloat(tenths) ==
    LET mag == Abs(tenths)
        text == NatChars(mag \div 10) \o <<".">> \o NatChars(mag % 10)
    IN  IF tenths < 0 THEN <<"-">> \o text ELSE text

\* Python truthiness of an exchange rate: None and 0.0 are false.
Truthy(rate) == rate.t = "num" /\ rate.v # 0

header_row ==
    <<"Security", "Trade Date", "Settlement Date", "Action", "Amount/Share",
      "Shares", "Commission", "Currency", "Memo", "Exchange Rate">>

\* One tuple of rows().
RowOf(tx) ==
    <<tx.security, tx.transaction_date, tx.settlement_date, tx.action,
      StrFloat(tx.amount_per_share), StrInt(tx.num_shares),
      StrFloat(tx.commission), tx.currency, tx.memo,
      IF Truthy(tx.exchange_rate) THEN StrFloat(tx.exchange_rate.v) ELSE <<>>>>

rows(list) == [k \in 1..Len(list) |-> RowOf(list[k])]

\* render_csv and render_table write the header row and then rows(), in that
\* order; they differ in the layout of a line only, which `format` names.
Rendered(list, pretty) ==
    [format |-> IF pretty THEN "table" ELSE "csv",
     header |-> header_row,
     rows |-> rows(list)]

NoOutput == [format |-> None, header |-> <<>>, rows |-> <<>>]

(***************************************************************************)
(* The exports the model reads: every sequence of at most MaxRows data     *)
(* rows, each a valid Buy or Sell row or one that differs from it in one   *)
(* column.                                                                 *)
(***************************************************************************)
Date0103 == <<"2", "0", "2", "3", "-", "0", "1", "-", "0", "3">>
Date0104 == <<"2", "0", "2", "3", "-", "0", "1", "-", "0", "4">>
Date0105 == <<"2", "0", "2", "3", "-", "0", "1", "-", "0", "5">>
Date0105AM == Date0105 \o <<" ", "1", "2", ":", "0", "0", " ", "A", "M">>
DateShort == <<"2", "0", "2", "3", "-", "1", "-", "7">>

BuyRow ==
    [Action |-> "Buy", Symbol |-> "CCO",
     TransactionDate |-> PyStr(Date0104), SettlementDate |-> PyStr(Date0105),
     Quantity |-> PyNum(20), Price |-> PyNum(100), Commission |-> PyNum(-39),
     Currency |-> "CAD"]

SellRow ==
    [Action |-> "Sell", Symbol |-> "CCO",
     TransactionDate |-> PyStr(Date0104), SettlementDate |-> PyStr(Date0105),
     Quantity |-> PyNum(-80), Price |-> PyNum(100), Commission |-> PyNum(10),
     Currency |-> "CAD"]

RowSet ==
    {BuyRow, SellRow,
     [BuyRow EXCEPT !.Symbol = "H038778", !.Currency = "USD",
                    !.SettlementDate = PyStr(Date0103),
                    !.TransactionDate = PyStr(Date0103)],
     [SellRow EXCEPT !.SettlementDate = PyStr(Date0105AM), !.Currency = "USD",
                     !.Quantity = PyStr(<<"-", "5">>)],
     [BuyRow EXCEPT !.Action = "XXX"],
     [BuyRow EXCEPT !.Action = "DIV"],
     [BuyRow EXCEPT !.Action = None],
     [SellRow EXCEPT !.Action = "TFI"],
     [BuyRow EXCEPT !.SettlementDate = PyStr(DateShort)],
     [BuyRow EXCEPT !.SettlementDate = PyNone],
     [SellRow EXCEPT !.TransactionDate = PyStr(DateShort)],
     [BuyRow EXCEPT !.Quantity = PyStr(<<"2", ".", "5">>)],
     [BuyRow EXCEPT !.Quantity = PyStr(<<"a", "b", "c">>)],
     [SellRow EXCEPT !.Quantity = PyNone],
     [BuyRow EXCEPT !.Price = PyStr(<<"a", "b", "c">>)],
     [SellRow EXCEPT !.Commission = PyNone],
     [SellRow EXCEPT !.Quantity = PyNum(80)],
     [BuyRow EXCEPT !.Price = PyNum(-100)]}

SeqsUpTo(S, n) == UNION {[1..k -> S] : k \in 0..n}

ArgsSet ==
    [no_sort : BOOLEAN,
     usd_exchange_rate : {PyNone, PyNum(0), PyNum(13)},
     pretty : BOOLEAN]

\* The exports of the sorting runs: rows that differ in their settlement
\* date (the sort key), an ignored row and a row that ends the run.
SortRowSet ==
    {BuyRow, SellRow,
     [BuyRow EXCEPT !.Symbol = "H038778", !.Currency = "USD",
                    !.SettlementDate = PyStr(Date0103),
                    !.TransactionDate = PyStr(Date0103)],
     [SellRow EXCEPT !.SettlementDate = PyStr(Date0105AM), !.Currency = "USD"],
     [BuyRow EXCEPT !.SettlementDate = PyStr(Date0104)],
     [BuyRow EXCEPT !.Action = "DIV"],
     [BuyRow EXCEPT !.Action = "XXX"]}

(***************************************************************************)
(* tx-export-convert.py: main, one action per step.                        *)
(***************************************************************************)
InitConvOn(exports) ==
    /\ args \in ArgsSet
    /\ sheet_rows \in exports
    /\ row_i = 1
    /\ txs = <<>>
    /\ pc = IF sheet_rows = <<>> THEN "sort" ELSE "rows"
    /\ exc = NoExc
    /\ exit_status = None
    /\ stdout = NoOutput

IdleConv ==
    /\ args = [no_sort |-> FALSE, usd_exchange_rate |-> PyNone, pretty |-> FALSE]
    /\ sheet_rows = <<>>
    /\ row_i = 1
    /\ txs = <<>>
    /\ pc = "idle"
    /\ exc = NoExc
    /\ exit_status = None
    /\ stdout = NoOutput

\* read_xl_file -> QuestradeSheet.__init__: one iteration of `for row in
\* sheet.rows`.  An exception is caught nowhere: it ends the process with a
\* traceback and a non-zero status, and nothing is written to stdout.
HandleRow ==
    /\ pc = "rows"
    /\ LET r == RowResult(sheet_rows[row_i], row_i)
           next_pc == IF row_i = Len(sheet_rows) THEN "sort" ELSE "rows"
       IN  \/ /\ r.kind = "skip"
              /\ row_i' = row_i + 1
              /\ pc' = next_pc
              /\ UNCHANGED <<txs, exc, exit_status>>
           \/ /\ r.kind = "tx"
              /\ txs' = Append(txs, r.tx)
              /\ row_i' = row_i + 1
              /\ pc' = next_pc
              /\ UNCHANGED <<exc, exit_status>>
           \/ /\ r.kind = "raise"
              /\ exc' = r.exc
              /\ exit_status' = 1
              /\ pc' = "raised"
              /\ UNCHANGED <<txs, row_i>>
    /\ UNCHANGED <<args, sheet_rows, stdout>>
    /\ UNCHANGED <<benVars, fmvVars, libVars, fxVars>>

\* main: if not args.no_sort: sheet.sort_txs()
SortStep ==
    /\ pc = "sort"
    /\ txs' = IF args.no_sort THEN txs ELSE sort_txs(txs)
    /\ pc' = "rate"
    /\ UNCHANGED <<args, sheet_rows, row_i, exc, exit_status, stdout>>
    /\ UNCHANGED <<benVars, fmvVars, libVars, fxVars>>

\* main: the --usd-exchange-rate loop.
RateStep ==
    /\ pc = "rate"
    /\ txs' = IF args.usd_exchange_rate.t # "None"
              THEN [k \in 1..Len(txs) |->
                      IF txs[k].currency = "USD"
                      THEN [txs[k] EXCEPT !.exchange_rate = args.usd_exchange_rate]
                      ELSE txs[k]]
              ELSE txs
    /\ pc' = "render"
    /\ UNCHANGED <<args, sheet_rows, row_i, exc, exit_status, stdout>>
    /\ UNCHANGED <<benVars, fmvVars, libVars, fxVars>>

\* main: render_table or render_csv, then the normal exit.
RenderStep ==
    /\ pc = "render"
    /\ stdout' = Rendered(txs, args.pretty)
    /\ exit_status' = 0
    /\ pc' = "done"
    /\ UNCHANGED <<args, sheet_rows, row_i, txs, exc>>
    /\ UNCHANGED <<benVars, fmvVars, libVars, fxVars>>

(***************************************************************************)
(* etrade-plan-pdf-tx-extract.py: the benefit-to-trade matching.  Dates    *)
(* are day numbers; a BenefitEntry keeps the fields the matching reads or  *)
(* writes; an unset sell-to-cover date is PyNone.                          *)
(***************************************************************************)
PyDate(day) == [t |-> "date", s |-> <<>>, v |-> day]

\* timedelta(days=5)
WindowDays == 5

\* itertools.combinations(range(lo, hi + 1), n), in the order it yields them.
RECURSIVE Combinations(_, _, _)
Combinations(lo, hi, n) ==
    IF n = 0 THEN <<<<>>>>
    ELSE IF hi - lo + 1 < n THEN <<>>
    ELSE LET with == Combinations(lo + 1, hi, n - 1)
         IN  [k \in 1..Len(with) |-> <<lo>> \o with[k]]
             \o Combinations(lo + 1, hi, n)

\* The index tuples the two nested loops visit: n = len .. 1, each in order.
RECURSIVE CombinationsFrom(_, _)
CombinationsFrom(len, n) ==
    IF n = 0 THEN <<>>
    ELSE Combinations(1, len, n) \o CombinationsFrom(len, n - 1)

RECURSIVE SumShares(_)
SumShares(trades) ==
    IF trades = <<>> THEN 0 ELSE Head(trades).shares + SumShares(Tail(trades))

\* Loops that keep the first match and go on at a second one.
RECURSIVE ScanKeepFirst(_, _, _, _, _)
ScanKeepFirst(benefit, cands, combos, k, matching) ==
    IF k > Len(combos) THEN [kind |-> "end", trades |-> matching]
    ELSE
      LET trades == [j \in 1..Len(combos[k]) |-> cands[combos[k][j]]]
      IN  IF /\ matching = <<>>
             /\ \A j \in 1..Len(trades) : trades[j].security = benefit.security
             /\ SumShares(trades) = benefit.sell_to_cover_shares
          THEN ScanKeepFirst(benefit, cands, combos, k + 1, trades)
          ELSE ScanKeepFirst(benefit, cands, combos, k + 1, matching)

\* The loops of find_and_apply_sell_to_cover_trade_set from the k-th
\* combination on, with matching_trades = `matching` (<<>> for None: a
\* combination is never empty).  Ends "multiple" at a second match, else
\* "end" with the only match or <<>>.
RECURSIVE ScanCombinations(_, _, _, _, _)
ScanCombinations(benefit, cands, combos, k, matching) ==
    IF k > Len(combos) THEN [kind |-> "end", trades |-> matching]
    ELSE
      LET trades == [j \in 1..Len(combos[k]) |-> cands[combos[k][j]]]
      IN  IF ~(\A j \in 1..Len(trades) : trades[j].security = benefit.security)
          THEN ScanCombinations(benefit, cands, combos, k + 1, matching)
          ELSE IF SumShares(trades) = benefit.sell_to_cover_shares
          THEN IF matching # <<>>
               THEN [kind |-> "multiple", trades |-> <<>>]
               ELSE ScanCombinations(benefit, cands, combos, k + 1, trades)
          ELSE ScanCombinations(benefit, cands, combos, k + 1, matching)

\* A choice of the last trade of the match.
DatingTradeLast(matching_trades) == matching_trades[Len(matching_trades)]

\* The trade of a match whose dates the benefit gets: matching_trades[0].
DatingTrade(matching_trades) == matching_trades[1]

\* A find_and_apply_sell_to_cover_trade_set without its final else branch:
\* nothing is printed when no combination matches.
find_and_apply_without_else(benefit, cands) ==
    LET scan == ScanCombinations(benefit, cands,
                                 CombinationsFrom(Len(cands), Len(cands)), 1, <<>>)
    IN  IF scan.kind = "multiple"
        THEN [trades |-> <<>>, benefit |-> benefit,
              print |-> <<[text |-> "Error: Multiple trade combinations near",
                           plan_note |-> None,
                           date |-> benefit.acquire_tx_date]>>]
        ELSE IF scan.trades # <<>>
        THEN [trades |-> scan.trades,
              benefit |-> [benefit EXCEPT
                  !.sell_to_cover_tx_date = PyDate(DatingTrade(scan.trades).tx_date),
                  !.sell_to_cover_settle_date =
                      PyDate(DatingTrade(scan.trades).settle_date)],
              print |-> <<>>]
        ELSE [trades |-> <<>>, benefit |-> benefit, print |-> <<>>]

\* find_and_apply_sell_to_cover_trade_set: the returned trades, the benefit
\* as amended, and the line printed (<<>> when none).
find_and_apply_sell_to_cover_trade_set(benefit, cands) ==
    LET scan == ScanCombinations(benefit, cands,
                                 CombinationsFrom(Len(cands), Len(cands)), 1, <<>>)
    IN  IF scan.kind = "multiple"
        THEN [trades |-> <<>>, benefit |-> benefit,
              print |-> <<[text |-> "Error: Multiple trade combinations near",
                           plan_note |-> None,
                           date |-> benefit.acquire_tx_date]>>]
        ELSE IF scan.trades # <<>>
        THEN [trades |-> scan.trades,
              benefit |-> [benefit EXCEPT
                  !.sell_to_cover_tx_date = PyDate(DatingTrade(scan.trades).tx_date),
                  !.sell_to_cover_settle_date =
                      PyDate(DatingTrade(scan.trades).settle_date)],
              print |-> <<>>]
        ELSE [trades |-> <<>>, benefit |-> benefit,
              print |-> <<[text |-> "Error: Found no trades matching the sell-to-cover for",
                           plan_note |-> benefit.plan_note,
                           date |-> benefit.acquire_tx_date]>>]

\* The candidate filter of amend_benefit_sales.
IsCandidate(benefit, trade) ==
    /\ trade.action = "SELL"
    /\ benefit.acquire_tx_date <= trade.tx_date
    /\ trade.tx_date <= benefit.acquire_tx_date + WindowDays

\* A candidate list that takes every trade of the pool.
candidate_trades_unfiltered(benefit, list) == list

\* amend_benefit_sales: the candidate_trades of one benefit.
candidate_trades(benefit, list) ==
    SelectSeq(list, LAMBDA trade : IsCandidate(benefit, trade))

\* A removal that fills the hole with the last element of the list.
RemoveBySwap(list, t) ==
    LET at == {k \in 1..Len(list) : list[k] = t}
        i == CHOOSE k \in at : \A m \in at : k <= m
    IN  IF at = {} THEN list
        ELSE [k \in 1..Len(list) - 1 |-> IF k = i THEN list[Len(list)] ELSE list[k]]

\* list.remove(t): the first element equal to t goes.
RECURSIVE Remove(_, _)
Remove(list, t) ==
    IF list = <<>> THEN <<>>
    ELSE IF Head(list) = t THEN Tail(list)
    ELSE <<Head(list)>> \o Remove(Tail(list), t)

\* A loop that removes nothing.
RemoveNone(list, ts) == list

\* for t in matched_trades: trade_confs.remove(t)
RECURSIVE RemoveEach(_, _)
RemoveEach(list, ts) ==
    IF ts = <<>> THEN list ELSE RemoveEach(Remove(list, Head(ts)), Tail(ts))

Trade(security, action, tx_date, shares) ==
    [security |-> security, action |-> action, tx_date |-> tx_date,
     settle_date |-> tx_date + 2, shares |-> shares]

TradeSet ==
    {Trade("ACME", "SELL", 1, 60), Trade("ACME", "SELL", 2, 40),
     Trade("ACME", "SELL", 2, 60), Trade("ACME", "SELL", 2, 100),
     Trade("ACME", "SELL", 7, 40), Trade("ACME", "SELL", 0, 40),
     Trade("OTHR", "SELL", 2, 40), Trade("ACME", "BUY", 2, 40)}

Benefit(acquire_tx_date, shares, plan_note) ==
    [security |-> "ACME", acquire_tx_date |-> acquire_tx_date,
     sell_to_cover_tx_date |-> PyNone, sell_to_cover_settle_date |-> PyNone,
     sell_to_cover_shares |-> shares, plan_note |-> plan_note]

BenefitSet ==
    {Benefit(1, 100, "RSU R1"), Benefit(1, 40, "RSU R2"),
     Benefit(3, 40, "ESPP"), Benefit(3, 100, "ESPP")}

InitBen ==
    /\ benefits \in SeqsUpTo(BenefitSet, MaxBenefits)
    /\ trade_confs \in SeqsUpTo(TradeSet, MaxTrades)
    /\ pool = trade_confs
    /\ b_i = 1
    /\ matched = <<>>
    /\ printed = <<>>
    /\ remaining = <<>>
    /\ bpc = IF benefits = <<>> THEN "return" ELSE "loop"

IdleBen ==
    /\ benefits = <<>>
    /\ trade_confs = <<>>
    /\ pool = <<>>
    /\ b_i = 1
    /\ matched = <<>>
    /\ printed = <<>>
    /\ remaining = <<>>
    /\ bpc = "idle"

\* amend_benefit_sales: one iteration of `for benefit in benefits`.
AmendBenefit ==
    /\ bpc = "loop"
    /\ LET benefit == benefits[b_i]
           r == find_and_apply_sell_to_cover_trade_set(
                    benefit, candidate_trades(benefit, pool))
       IN  /\ benefits' = [benefits EXCEPT ![b_i] = r.benefit]
           /\ pool' = RemoveEach(pool, r.trades)
           /\ matched' = Append(matched, r.trades)
           /\ printed' = printed \o r.print
    /\ b_i' = b_i + 1
    /\ bpc' = IF b_i = Len(benefits) THEN "return" ELSE "loop"
    /\ UNCHANGED <<trade_confs, remaining>>
    /\ UNCHANGED <<convVars, fmvVars, libVars, fxVars>>

\* amend_benefit_sales: return trade_confs (the leftover trades).
ReturnLeftover ==
    /\ bpc = "return"
    /\ remaining' = pool
    /\ bpc' = "returned"
    /\ UNCHANGED <<benefits, trade_confs, pool, b_i, matched, printed>>
    /\ UNCHANGED <<convVars, fmvVars, libVars, fxVars>>

(***************************************************************************)
(* py/questrade-statement-fmv.py.  A line of a page is the sequence of its *)
(* characters.  A Decimal is a record [t, neg, coef, places]: sign,        *)
(* coefficient and number of decimal places; DecNone is Python's None.     *)
(***************************************************************************)
IsUpper(c) ==
    c \in {"A", "B", "C", "D", "E", "F", "G", "H", "I", "J", "K", "L", "M",
           "N", "O", "P", "Q", "R", "S", "T", "U", "V", "W", "X", "Y", "Z"}

DecNone == [t |-> "None", neg |-> FALSE, coef |-> 0, places |-> 0]

\* Decimal(x) of a text made of a sign, digits and points: [+-]?d*.?d* with
\* at least one digit; any other such text is an InvalidOperation.
DecimalOf(chars) ==
    LET signed == chars # <<>> /\ Head(chars) \in {"-", "+"}
        body == IF signed THEN Tail(chars) ELSE chars
        points == {k \in 1..Len(body) : body[k] = "."}
        digits == SelectSeq(body, IsDigit)
        point == IF points = {} THEN Len(body) ELSE CHOOSE k \in points : TRUE
    IN  IF \/ digits = <<>>
           \/ Cardinality(points) > 1
           \/ \E k \in 1..Len(body) : ~IsDigit(body[k]) /\ body[k] # "."
        THEN [ok |-> FALSE, value |-> DecNone]
        ELSE [ok |-> TRUE,
              value |-> [t |-> "Decimal",
                         neg |-> signed /\ Head(chars) = "-",
                         coef |-> DigitsValue(digits, 0),
                         places |-> IF points = {} THEN 0 ELSE Len(body) - point]]

\* neg * d for neg in {-1, 1}.
DecimalTimes(neg, d) == [d EXCEPT !.neg = IF neg = -1 THEN ~d.neg ELSE d.neg]

\* str.strip() (the only whitespace of the model's lines is the space).
RECURSIVE LStrip(_)
LStrip(chars) ==
    IF chars # <<>> /\ Head(chars) = " " THEN LStrip(Tail(chars)) ELSE chars

RECURSIVE RStrip(_)
RStrip(chars) ==
    IF chars # <<>> /\ chars[Len(chars)] = " "
    THEN RStrip(SubSeq(chars, 1, Len(chars) - 1)) ELSE chars

Strip(chars) == RStrip(LStrip(chars))

SEC_PAT == <<"^", "[", "A", "-", "Z", "]", ".", "*">>
DEC_PAT == <<"-", "?", "\\", "s", "*", "[", ".", ",", " ", "\\", "d", "]", "+">>

StrMatcher(crit) == [kind |-> "StrMatcher", crit |-> crit]
ReMatcher(pat) == [kind |-> "ReMatcher", crit |-> pat]
NegReMatcher(pat) == [kind |-> "NegReMatcher", crit |-> pat]
DecMatcher == [kind |-> "DecMatcher", crit |-> DEC_PAT]
NullMatcher == [kind |-> "NullMatcher", crit |-> <<>>]

\* re.match of the two patterns the script uses.  SEC_PAT: the line starts
\* with a capital letter.  DecMatcher's pattern -?\s*[., \d]+ : after an
\* optional '-' and optional spaces comes a point, comma, space or digit.
ReMatch(pat, v) ==
    IF pat = SEC_PAT THEN v # <<>> /\ IsUpper(v[1])
    ELSE LET rest == IF v # <<>> /\ v[1] = "-" THEN Tail(v) ELSE v
         IN  rest # <<>> /\ (IsDigit(rest[1]) \/ rest[1] \in {".", ",", " "})

match_line(matcher, v) ==
    CASE matcher.kind = "StrMatcher" -> v = matcher.crit
      [] matcher.kind = "NegReMatcher" -> ~ReMatch(matcher.crit, v)
      [] OTHER -> ReMatch(matcher.crit, v)

\* Matcher.to_decimal (raises ValueError) and DecMatcher.to_decimal: the
\* sign is read off v[0], the commas and spaces (not the '-') are deleted,
\* and the sign multiplies Decimal of what is left.
to_decimal(matcher, v) ==
    IF matcher.kind # "DecMatcher"
    THEN [exc |-> Raise("ValueError", "is not convertible to Decimal", PyStr(v)),
          value |-> DecNone]
    ELSE LET neg == IF v[1] = "-" THEN -1 ELSE 1
             x == SelectSeq(v, LAMBDA c : c \notin {",", " "})
             d == DecimalOf(x)
         IN  IF d.ok THEN [exc |-> NoExc, value |-> DecimalTimes(neg, d.value)]
             ELSE [exc |-> Raise("ParseError", "cannot convert to Decimal", PyStr(v)),
                   value |-> DecNone]

STATES ==
    [start |-> << <<StrMatcher(<<"A", "L", "L", "O", "C", "A", "T", "I", "O", "N">>), "hdrAllocation">> >>,
     hdrAllocation |-> << <<StrMatcher(<<"M", "A", "R", "K", "E", "T", " ", "V", "A", "L", "U", "E">>), "hdrMarketValue">> >>,
     hdrMarketValue |-> << <<ReMatcher(SEC_PAT), "security">> >>,
     div |-> << <<ReMatcher(SEC_PAT), "security">> >>,
     security |-> << <<DecMatcher, "allocation">> >>,
     allocation |-> << <<DecMatcher, "marketValue">> >>,
     marketValue |-> << <<StrMatcher(<<"1", "0", "0", ".", "0">>), "done">>,
                        <<NegReMatcher(SEC_PAT), "div">>,
                        <<ReMatcher(SEC_PAT), "security">> >>]

\* A matcher loop without its break: the last matcher that accepts wins.
RECURSIVE LastMatch(_, _, _, _, _)
LastMatch(pairs, k, line, cur_conv, cur_state) ==
    IF k > Len(pairs) THEN [conv |-> cur_conv, state |-> cur_state]
    ELSE IF match_line(pairs[k][1], line)
    THEN LastMatch(pairs, k + 1, line, pairs[k][1], pairs[k][2])
    ELSE LastMatch(pairs, k + 1, line, cur_conv, cur_state)

\* for matcher in STATES[state]: the first matcher that accepts the line
\* gives the new conv and state; without one both stay.
RECURSIVE FirstMatch(_, _, _, _, _)
FirstMatch(pairs, k, line, cur_conv, cur_state) ==
    IF k > Len(pairs) THEN [conv |-> cur_conv, state |-> cur_state]
    ELSE IF match_line(pairs[k][1], line)
    THEN [conv |-> pairs[k][1], state |-> pairs[k][2]]
    ELSE FirstMatch(pairs, k + 1, line, cur_conv, cur_state)

newParseState == [security |-> <<>>, allocation |-> DecNone, fmv |-> DecNone]

\* " ".join(self.security)
RECURSIVE Join(_)
Join(parts) ==
    IF parts = <<>> THEN <<>>
    ELSE IF Len(parts) = 1 THEN parts[1]
    ELSE parts[1] \o <<" ">> \o Join(Tail(parts))

\* re.match(r".*\((?P<ticker>.*?)\)\s*$", sec): the text ends, up to spaces,
\* with ')'; the ticker runs from the last '(' before that ')' to it.
TickerMatch(sec) ==
    LET body == RStrip(sec)
        opens == {k \in 1..Len(body) - 1 : body[k] = "("}
        open == CHOOSE k \in opens : \A j \in opens : j <= k
    IN  IF body # <<>> /\ body[Len(body)] = ")" /\ opens # {}
        THEN [ok |-> TRUE, ticker |-> SubSeq(body, open + 1, Len(body) - 1)]
        ELSE [ok |-> FALSE, ticker |-> <<>>]

\* ParseState.to_fmv
to_fmv(self) ==
    IF self.security = <<>> \/ self.allocation = DecNone \/ self.fmv = DecNone
       \/ ~TickerMatch(Join(self.security)).ok
    THEN [exc |-> Raise("AssertionError", "to_fmv", PyNone), value |-> <<>>]
    ELSE [exc |-> NoExc,
          value |-> <<[security |-> TickerMatch(Join(self.security)).ticker,
                       allocation |-> self.allocation,
                       fmv |-> self.fmv]>>]

\* A page-end test that accepts every state.
PageEndUnchecked(s) == NoExc

\* assert state == SecOwnedState.done, after the lines of a page.
PageEndCheck(s) ==
    IF s = "done" THEN NoExc
    ELSE Raise("AssertionError", "expected to terminal in 'done', but in", PyNone)

NoReturn == [returned |-> FALSE, fmvs |-> <<>>, month |-> None]

\* Pages of statements.  current_month is what the "Current month:" search
\* finds in the page's text (None: nothing); securities_owned says whether
\* the text holds "Securities Owned\nCombined in (CAD)".
Page(current_month, securities_owned, lines) ==
    [current_month |-> current_month, securities_owned |-> securities_owned,
     lines |-> lines]

LineAllocation == <<"A", "L", "L", "O", "C", "A", "T", "I", "O", "N">>
LineMarketValue == <<"M", "A", "R", "K", "E", "T", " ", "V", "A", "L", "U", "E">>
LineAcme == <<"A", "C", "M", "E", " ", "(", "A", "C", "M", ")">>
LineBeta == <<"B", "E", "T", "A">>
LineBetaTicker == <<"(", "B", "E", "T", ")">>
LineCash == <<"c", "a", "s", "h">>
LineHundred == <<"1", "0", "0", ".", "0">>

PageSet ==
    {Page("January 31, 2024", FALSE, <<>>),
     Page(None, FALSE, <<LineAllocation, LineHundred>>),
     \* two securities (one named on two lines), then the total
     Page("January 31, 2024", TRUE,
          <<LineAllocation, LineMarketValue, LineAcme, <<"1", "2", ".", "5">>, <<"1", ",", "2", "3", "4", ".", "5">>,
            LineBeta, LineBetaTicker, <<"8", "7", ".", "5">>, <<"-", "3", ".", "5">>, LineHundred, LineAcme>>),
     \* a divider line between two securities, unstripped lines
     Page(None, TRUE,
          <<LineAllocation, LineMarketValue, <<" ", " ", "A", "C", "M", "E", " ", "(", "A", "C", "M", ")", " ">>, LineHundred, <<" ", "8", "7", ".", "5">>,
            LineCash, <<>>, LineAcme, <<"-", " ", "3", ".", "5">>, <<"1", "2", ".", "5">>, LineHundred>>),
     \* the total line is missing after one complete security
     Page(None, TRUE, <<LineAllocation, LineMarketValue, LineAcme, <<"1", "2", ".", "5">>, <<"1", ",", "2", "3", "4", ".", "5">>>>),
     \* the total line comes after a divider
     Page(None, TRUE,
          <<LineAllocation, LineMarketValue, LineAcme, <<"1", "2", ".", "5">>, <<"8", "7", ".", "5">>,
            LineCash, LineHundred>>),
     \* not a number Decimal accepts
     Page(None, TRUE, <<LineAllocation, LineMarketValue, LineAcme, <<"1", ".", "2", ".", "3">>>>),
     \* no market value after the allocation
     Page(None, TRUE, <<LineAllocation, LineMarketValue, LineAcme, <<"1", "2", ".", "5">>, LineCash>>),
     \* a name without a ticker
     Page(None, TRUE, <<LineAllocation, LineMarketValue, LineBeta, <<"1", "2", ".", "5">>, <<"8", "7", ".", "5">>>>),
     \* the headers never come
     Page(None, TRUE, <<LineMarketValue, LineAllocation, LineAcme>>)}

\* Statements of one securities-owned page, for the line state machine:
\* the two header lines and then any lines of BodyLineSet, or, without the
\* headers, any lines of HeaderLineSet.
LineNumber == <<"1", "2", ".", "5">>

BodyLineSet == {LineAcme, LineCash, LineNumber, LineHundred, <<>>}

HeaderLineSet == {LineAllocation, LineMarketValue, LineAcme, LineNumber}

TablePageSet ==
    {Page("January 31, 2024", TRUE, <<LineAllocation, LineMarketValue>> \o body) :
        body \in SeqsUpTo(BodyLineSet, MaxBodyLines)}
    \cup {Page("January 31, 2024", TRUE, lines) :
             lines \in SeqsUpTo(HeaderLineSet, MaxHeaderLines)}

InitFmvOn(statements) ==
    /\ pages \in statements
    /\ page_i = 1
    /\ line_i = 1
    /\ state = None
    /\ conv = NullMatcher
    /\ accum = newParseState
    /\ fmvs = <<>>
    /\ month = None
    /\ converted = <<>>
    /\ fpc = "pages"
    /\ fexc = NoExc
    /\ fret = NoReturn

InitFmv == InitFmvOn(SeqsUpTo(PageSet, MaxPages))

IdleFmv ==
    /\ pages = <<>>
    /\ page_i = 1
    /\ line_i = 1
    /\ state = None
    /\ conv = NullMatcher
    /\ accum = newParseState
    /\ fmvs = <<>>
    /\ month = None
    /\ converted = <<>>
    /\ fpc = "idle"
    /\ fexc = NoExc
    /\ fret = NoReturn

\* parse_pdf: the top of one iteration of `for page in reader.pages`, up to
\* the line loop.
StartPage ==
    /\ fpc = "pages"
    /\ page_i <= Len(pages)
    /\ LET page == pages[page_i]
       IN  /\ month' = IF page.current_month # None THEN page.current_month ELSE month
           /\ IF ~page.securities_owned
              THEN /\ page_i' = page_i + 1
                   /\ UNCHANGED <<line_i, state, conv, accum, fpc>>
              ELSE /\ state' = "start"
                   /\ conv' = NullMatcher
                   /\ accum' = newParseState
                   /\ line_i' = 1
                   /\ fpc' = "lines"
                   /\ UNCHANGED page_i
    /\ UNCHANGED <<pages, fmvs, converted, fexc, fret>>
    /\ UNCHANGED <<convVars, benVars, libVars, fxVars>>

\* parse_pdf: one iteration of the line loop.
HandleLine ==
    /\ fpc = "lines"
    /\ line_i <= Len(pages[page_i].lines)
    /\ LET line == Strip(pages[page_i].lines[line_i])
           m == FirstMatch(STATES[state], 1, line, conv, state)
           dec == to_decimal(m.conv, line)
           entry == to_fmv([accum EXCEPT !.fmv = dec.value])
       IN  /\ conv' = m.conv
           /\ state' = m.state
           /\ CASE m.state = "done" ->
                     /\ fpc' = "page_end"
                     /\ UNCHANGED <<line_i, accum, fmvs, converted, fexc>>
                [] m.state = "security" ->
                     /\ accum' = [accum EXCEPT !.security = Append(@, line)]
                     /\ line_i' = line_i + 1
                     /\ UNCHANGED <<fmvs, converted, fexc, fpc>>
                [] m.state = "allocation" ->
                     IF accum.allocation # DecNone
                     THEN /\ fexc' = Raise("AssertionError", "already have allocation",
                                           PyNone)
                          /\ fpc' = "raised"
                          /\ UNCHANGED <<line_i, accum, fmvs, converted>>
                     ELSE IF dec.exc # NoExc
                     THEN /\ fexc' = dec.exc
                          /\ fpc' = "raised"
                          /\ UNCHANGED <<line_i, accum, fmvs, converted>>
                     ELSE /\ accum' = [accum EXCEPT !.allocation = dec.value]
                          /\ converted' = Append(converted, <<line, dec.value>>)
                          /\ line_i' = line_i + 1
                          /\ UNCHANGED <<fmvs, fexc, fpc>>
                [] m.state = "marketValue" ->
                     IF accum.fmv # DecNone
                     THEN /\ fexc' = Raise("AssertionError", "accum.fmv is None", PyNone)
                          /\ fpc' = "raised"
                          /\ UNCHANGED <<line_i, accum, fmvs, converted>>
                     ELSE IF dec.exc # NoExc
                     THEN /\ fexc' = dec.exc
                          /\ fpc' = "raised"
                          /\ UNCHANGED <<line_i, accum, fmvs, converted>>
                     ELSE IF entry.exc # NoExc
                     THEN /\ fexc' = entry.exc
                          /\ fpc' = "raised"
                          /\ accum' = [accum EXCEPT !.fmv = dec.value]
                          /\ converted' = Append(converted, <<line, dec.value>>)
                          /\ UNCHANGED <<line_i, fmvs>>
                     ELSE /\ fmvs' = fmvs \o entry.value
                          /\ accum' = newParseState
                          /\ converted' = Append(converted, <<line, dec.value>>)
                          /\ line_i' = line_i + 1
                          /\ UNCHANGED <<fexc, fpc>>
                [] OTHER ->
                     /\ line_i' = line_i + 1
                     /\ UNCHANGED <<accum, fmvs, converted, fexc, fpc>>
    /\ UNCHANGED <<pages, page_i, month, fret>>
    /\ UNCHANGED <<convVars, benVars, libVars, fxVars>>

\* parse_pdf: after the line loop (run out or left by break), the assert on
\* the state, and on to the next page.
EndPage ==
    /\ \/ fpc = "page_end"
       \/ fpc = "lines" /\ line_i > Len(pages[page_i].lines)
    /\ IF PageEndCheck(state) # NoExc
       THEN /\ fexc' = PageEndCheck(state)
            /\ fpc' = "raised"
            /\ UNCHANGED page_i
       ELSE /\ page_i' = page_i + 1
            /\ fpc' = "pages"
            /\ UNCHANGED fexc
    /\ UNCHANGED <<pages, line_i, state, conv, accum, fmvs, month, converted, fret>>
    /\ UNCHANGED <<convVars, benVars, libVars, fxVars>>

\* parse_pdf: after the page loop, `assert month is not None` and the return.
ReturnFmvs ==
    /\ fpc = "pages"
    /\ page_i > Len(pages)
    /\ IF month = None
       THEN /\ fexc' = Raise("AssertionError", "month is not None", PyNone)
            /\ fpc' = "raised"
            /\ UNCHANGED fret
       ELSE /\ fret' = [returned |-> TRUE, fmvs |-> fmvs, month |-> month]
            /\ fpc' = "returned"
            /\ UNCHANGED fexc
    /\ UNCHANGED <<pages, page_i, line_i, state, conv, accum, fmvs, month, converted>>
    /\ UNCHANGED <<convVars, benVars, libVars, fxVars>>

(***************************************************************************)
(* py/txlib.py: AcbCsvRenderer, driven by a caller that appends records    *)
(* and error messages, may sort, renders, and then reports the errors.     *)
(***************************************************************************)
\* sort_txs of txlib: the same stable sorted() by date_and_time.
txlib_sort_txs(list) == SortedFrom(<<>>, list)

txlib_header_row ==
    <<"Security", "Trade Date", "Settlement Date", "Action", "Amount/Share",
      "Shares", "Commission", "Currency", "Affiliate", "Memo", "Exchange Rate">>

\* One tuple of txlib's rows().
txlib_RowOf(tx) ==
    <<tx.security, tx.trade_date, tx.settlement_date, tx.action,
      StrFloat(tx.amount_per_share), StrInt(tx.num_shares),
      StrFloat(tx.commission), tx.currency, tx.affiliate, tx.memo,
      IF Truthy(tx.exchange_rate) THEN StrFloat(tx.exchange_rate.v) ELSE <<>>>>

txlib_rows(list) == [k \in 1..Len(list) |-> txlib_RowOf(list[k])]

txlib_Rendered(list, pretty) ==
    [format |-> IF pretty THEN "table" ELSE "csv",
     header |-> txlib_header_row,
     rows |-> txlib_rows(list)]

\* A render_errors that goes through the errors from the last to the first.
render_errors_reversed(errors) ==
    IF errors # <<>>
    THEN [stderr |-> <<<<"">>, <<"Errors:">>>>
                     \o [k \in 1..Len(errors) |-> <<" -", errors[Len(errors) + 1 - k]>>],
          ret |-> TRUE]
    ELSE [stderr |-> <<>>, ret |-> FALSE]

\* render_errors: print("\nErrors:") writes an empty line and the line
\* "Errors:"; print(" -", err) writes one line per error.
render_errors(errors) ==
    IF errors # <<>>
    THEN [stderr |-> <<<<"">>, <<"Errors:">>>>
                     \o [k \in 1..Len(errors) |-> <<" -", errors[k]>>],
          ret |-> TRUE]
    ELSE [stderr |-> <<>>, ret |-> FALSE]

LibTx(security, date, action, rate) ==
    [security |-> security, trade_date |-> date, settlement_date |-> date,
     date_and_time |-> date, action |-> action, amount_per_share |-> 100,
     num_shares |-> 20, commission |-> 39, currency |-> "USD", memo |-> "",
     exchange_rate |-> rate, affiliate |-> "", account |-> None]

LibTxSet ==
    {LibTx("FOO", Date0105, "BUY", PyNone),
     LibTx("BAR", Date0103, "SELL", PyNum(13)),
     LibTx("BAZ", Date0103, "BUY", PyNum(0))}

ErrorSet ==
    {"Row 22: Unpaired FXT", "Both FXTs have positive amounts",
     "FX currency UNK not supported"}

InitLib ==
    /\ lib_txs = <<>>
    /\ lib_errors = <<>>
    /\ lib_stdout = NoOutput
    /\ lib_stderr = <<>>
    /\ lib_ret = FALSE
    /\ lpc = "build"

IdleLib ==
    /\ lib_txs = <<>>
    /\ lib_errors = <<>>
    /\ lib_stdout = NoOutput
    /\ lib_stderr = <<>>
    /\ lib_ret = FALSE
    /\ lpc = "idle"

\* The caller: renderer.txs.append(tx)
AppendTx ==
    /\ lpc = "build"
    /\ Len(lib_txs) < MaxLibTxs
    /\ \E tx \in LibTxSet : lib_txs' = Append(lib_txs, tx)
    /\ UNCHANGED <<lib_errors, lib_stdout, lib_stderr, lib_ret, lpc>>
    /\ UNCHANGED <<convVars, benVars, fmvVars, fxVars>>

\* The caller: renderer.errors.append(message)
AppendError ==
    /\ lpc = "build"
    /\ Len(lib_errors) < MaxErrors
    /\ \E err \in ErrorSet : lib_errors' = Append(lib_errors, err)
    /\ UNCHANGED <<lib_txs, lib_stdout, lib_stderr, lib_ret, lpc>>
    /\ UNCHANGED <<convVars, benVars, fmvVars, fxVars>>

\* AcbCsvRenderer.sort_txs
SortTxs ==
    /\ lpc = "build"
    /\ lib_txs' = txlib_sort_txs(lib_txs)
    /\ lpc' = "sorted"
    /\ UNCHANGED <<lib_errors, lib_stdout, lib_stderr, lib_ret>>
    /\ UNCHANGED <<convVars, benVars, fmvVars, fxVars>>

\* AcbCsvRenderer.render_csv
RenderCsv ==
    /\ lpc \in {"build", "sorted"}
    /\ lib_stdout' = txlib_Rendered(lib_txs, FALSE)
    /\ lpc' = "rendered"
    /\ UNCHANGED <<lib_txs, lib_errors, lib_stderr, lib_ret>>
    /\ UNCHANGED <<convVars, benVars, fmvVars, fxVars>>

\* AcbCsvRenderer.render_table
RenderTable ==
    /\ lpc \in {"build", "sorted"}
    /\ lib_stdout' = txlib_Rendered(lib_txs, TRUE)
    /\ lpc' = "rendered"
    /\ UNCHANGED <<lib_txs, lib_errors, lib_stderr, lib_ret>>
    /\ UNCHANGED <<convVars, benVars, fmvVars, fxVars>>

\* AcbCsvRenderer.render_errors
RenderErrors ==
    /\ lpc = "rendered"
    /\ lib_stderr' = lib_stderr \o render_errors(lib_errors).stderr
    /\ lib_ret' = render_errors(lib_errors).ret
    /\ lpc' = "done"
    /\ UNCHANGED <<lib_txs, lib_errors, lib_stdout>>
    /\ UNCHANGED <<convVars, benVars, fmvVars, fxVars>>

(***************************************************************************)
(* The FX-trade (FXT) pairing of the export converter.  A row is an FXT    *)
(* leg (date, currency, signed net amount) or an ordinary Buy row; a       *)
(* row's number is its position in the sheet, the header being row 1.      *)
(* Amounts are whole currency units, rates are in tenths.                  *)
(***************************************************************************)
\* The non-CAD currencies the pairing supports.
SupportedCurrencies == {"USD"}

FxError(row, text, currencies) == [row |-> row, text |-> text, currencies |-> currencies]

\* The exchange rate of a pair: CAD per unit of the foreign currency.
FxRate(cad, foreign) == PyNum((Abs(cad.amount) * 10) \div Abs(foreign.amount))

\* A record of a valid pair that carries no exchange rate.
FxRecordWithoutRate(cad, foreign) ==
    [security |-> <<foreign.currency, ".FX">>,
     date |-> foreign.date,
     action |-> IF foreign.amount > 0 THEN "BUY" ELSE "SELL",
     num_shares |-> Abs(foreign.amount) * 100,
     currency |-> foreign.currency,
     exchange_rate |-> PyNone,
     rows |-> {cad.row, foreign.row}]

\* The record written for a valid pair: a trade of the security <cur>.FX in
\* the foreign currency, at 0.01 a share, carrying the rate; `rows` records
\* the rows of the two legs.
FxRecord(cad, foreign) ==
    [security |-> <<foreign.currency, ".FX">>,
     date |-> foreign.date,
     action |-> IF foreign.amount > 0 THEN "BUY" ELSE "SELL",
     num_shares |-> Abs(foreign.amount) * 100,
     currency |-> foreign.currency,
     exchange_rate |-> FxRate(cad, foreign),
     rows |-> {cad.row, foreign.row}]

\* The record of an ordinary row.
OrdinaryRecord(leg) ==
    [security |-> <<leg.security>>,
     date |-> leg.date,
     action |-> "BUY",
     num_shares |-> leg.amount,
     currency |-> leg.currency,
     exchange_rate |-> PyNone,
     rows |-> {leg.row}]

\* Two legs of one date: the errors and records they give.  The error is
\* reported at the row of the second leg.
PairResult(first, second) ==
    LET err(text, curs) ==
            [errors |-> <<FxError(second.row, text, curs)>>, txs |-> <<>>]
        cads == {l \in {first, second} : l.currency = "CAD"}
        cad == IF first.currency = "CAD" THEN first ELSE second
        foreign == IF first.currency = "CAD" THEN second ELSE first
    IN  IF first.amount > 0 /\ second.amount > 0
        THEN err("Both FXTs have positive amounts", <<>>)
        ELSE IF first.amount < 0 /\ second.amount < 0
        THEN err("Both FXTs have negative amounts", <<>>)
        ELSE IF (first.currency = "CAD") = (second.currency = "CAD")
        THEN err("FXTs not supported between. Exactly one currency must be CAD.",
                 <<first.currency, second.currency>>)
        ELSE IF foreign.currency \notin SupportedCurrencies
        THEN err("FX currency not supported", <<foreign.currency>>)
        ELSE [errors |-> <<>>, txs |-> <<FxRecord(cad, foreign)>>]

\* Pending legs that are dropped without a word.
UnpairedSilently(pending) == <<>>

\* The legs left without a counterpart, in row order: one "Unpaired FXT"
\* error each.
RECURSIVE UnpairedErrors(_)
UnpairedErrors(pending) ==
    IF pending = {} THEN <<>>
    ELSE LET leg == CHOOSE l \in pending : \A m \in pending : l.row <= m.row
         IN  <<FxError(leg.row, "Unpaired FXT", <<>>)>>
             \o UnpairedErrors(pending \ {leg})

FxRow(action, security, date, currency, amount) ==
    [action |-> action, security |-> security, date |-> date,
     currency |-> currency, amount |-> amount]

FxRowSet ==
    {FxRow("FXT", "", 1, "USD", 100),
     FxRow("FXT", "", 1, "CAD", -130),
     FxRow("FXT", "", 1, "USD", -100),
     FxRow("FXT", "", 1, "CAD", 130),
     FxRow("FXT", "", 2, "CAD", -130),
     FxRow("FXT", "", 1, "UNK", 100),
     FxRow("Buy", "FOO", 1, "CAD", 2)}

\* A row together with its row number.
Leg(r, n) ==
    [action |-> r.action, security |-> r.security, date |-> r.date,
     currency |-> r.currency, amount |-> r.amount, row |-> n]

InitFx ==
    /\ fx_rows \in SeqsUpTo(FxRowSet, MaxFxRows)
    /\ fx_i = 1
    /\ fx_pending = {}
    /\ fx_txs = <<>>
    /\ fx_errors = <<>>
    /\ xpc = IF fx_rows = <<>> THEN "finish" ELSE "rows"

IdleFx ==
    /\ fx_rows = <<>>
    /\ fx_i = 1
    /\ fx_pending = {}
    /\ fx_txs = <<>>
    /\ fx_errors = <<>>
    /\ xpc = "idle"

\* One row of the sheet: an ordinary row gives its record; an FXT leg is
\* paired with the pending leg of its date, or waits for its counterpart.
HandleFxRow ==
    /\ xpc = "rows"
    /\ LET leg == Leg(fx_rows[fx_i], fx_i + 1)
           waiting == {p \in fx_pending : p.date = leg.date}
       IN  IF leg.action # "FXT"
           THEN /\ fx_txs' = Append(fx_txs, OrdinaryRecord(leg))
                /\ UNCHANGED <<fx_pending, fx_errors>>
           ELSE IF waiting = {}
           THEN /\ fx_pending' = fx_pending \cup {leg}
                /\ UNCHANGED <<fx_txs, fx_errors>>
           ELSE LET first == CHOOSE p \in waiting : TRUE
                    result == PairResult(first, leg)
                IN  /\ fx_pending' = fx_pending \ {first}
                    /\ fx_txs' = fx_txs \o result.txs
                    /\ fx_errors' = fx_errors \o result.errors
    /\ fx_i' = fx_i + 1
    /\ xpc' = IF fx_i < Len(fx_rows) THEN "rows" ELSE "finish"
    /\ UNCHANGED fx_rows
    /\ UNCHANGED <<convVars, benVars, fmvVars, libVars>>

\* The end of the rows: every leg still pending is an error.
FinishFx ==
    /\ xpc = "finish"
    /\ fx_errors' = fx_errors \o UnpairedErrors(fx_pending)
    /\ fx_pending' = {}
    /\ xpc' = "done"
    /\ UNCHANGED <<fx_rows, fx_i, fx_txs>>
    /\ UNCHANGED <<convVars, benVars, fmvVars, libVars>>

(***************************************************************************)
(* The specifications: one per script.                                     *)
(***************************************************************************)
Init == InitConvOn(SeqsUpTo(RowSet, MaxRows)) /\ IdleBen /\ IdleFmv /\ IdleLib /\ IdleFx

Next ==
    \/ HandleRow
    \/ SortStep
    \/ RateStep
    \/ RenderStep

Spec == Init /\ [][Next]_vars

\* The converter on exports that exercise the sort.
InitSort == InitConvOn(SeqsUpTo(SortRowSet, MaxSortRows)) /\ IdleBen /\ IdleFmv /\ IdleLib /\ IdleFx

SpecSort == InitSort /\ [][Next]_vars

InitBenefit == IdleConv /\ InitBen /\ IdleFmv /\ IdleLib /\ IdleFx

NextBenefit ==
    \/ AmendBenefit
    \/ ReturnLeftover

SpecBenefit == InitBenefit /\ [][NextBenefit]_vars

InitStatement == IdleConv /\ IdleBen /\ InitFmv /\ IdleLib /\ IdleFx

NextStatement ==
    \/ StartPage
    \/ HandleLine
    \/ EndPage
    \/ ReturnFmvs

SpecStatement == InitStatement /\ [][NextStatement]_vars

\* parse_pdf on one-page statements that exercise the line state machine.
InitLines ==
    IdleConv /\ IdleBen /\ InitFmvOn({<<p>> : p \in TablePageSet}) /\ IdleLib /\ IdleFx

SpecLines == InitLines /\ [][NextStatement]_vars

InitRenderer == IdleConv /\ IdleBen /\ IdleFmv /\ InitLib /\ IdleFx

NextRenderer ==
    \/ AppendTx
    \/ AppendError
    \/ SortTxs
    \/ RenderCsv
    \/ RenderTable
    \/ RenderErrors

SpecRenderer == InitRenderer /\ [][NextRenderer]_vars

InitPairing == IdleConv /\ IdleBen /\ IdleFmv /\ IdleLib /\ InitFx

NextPairing ==
    \/ HandleFxRow
    \/ FinishFx

SpecPairing == InitPairing /\ [][NextPairing]_vars

(***************************************************************************)
(* Vocabulary of the claims.                                               *)
(***************************************************************************)
Range(f) == {f[k] : k \in DOMAIN f}

Terminated == pc \in {"done", "raised"}

UnrecognizedAction(row) ==
    row.Action \notin allowed_actions /\ row.Action \notin ignored_actions

DateParses(cell) == cell.t = "str" /\ DateRegexpMatches(cell.s)

DatesParse(row) == DateParses(row.SettlementDate) /\ DateParses(row.TransactionDate)

IsNumber(cell) == PyFloat(cell).ok

NumbersParse(row) ==
    IsNumber(row.Quantity) /\ IsNumber(row.Price) /\ IsNumber(row.Commission)

IsIntegerQuantity(cell) == IsNumber(cell) /\ PyFloat(cell).v % 10 = 0

\* A Buy or Sell row all of whose fields parse.
ValidRow(row) ==
    /\ row.Action \in allowed_actions
    /\ DatesParse(row)
    /\ NumbersParse(row)
    /\ IsIntegerQuantity(row.Quantity)

\* A Buy or Sell row whose only fault is a missing or non-numeric number.
BadNumberRow(row) ==
    /\ row.Action \in allowed_actions
    /\ DatesParse(row)
    /\ ~NumbersParse(row)

RecordsOfRow(i) == {k \in 1..Len(txs) : txs[k].row = i}

\* The run was ended by the exception that row i raised.
StoppedAt(i) == pc = "raised" /\ row_i = i

(***************************************************************************)
(* C1.  A data row whose Action is neither allowed nor ignored is a        *)
(* row-level error: it yields no record and does not stop the run.         *)
(* The code raises an exception that nothing catches.                      *)
(***************************************************************************)
C1_UnrecognizedActionNotFatal ==
    \A i \in 1..Len(sheet_rows) :
        UnrecognizedAction(sheet_rows[i]) =>
            /\ ~StoppedAt(i)
            /\ RecordsOfRow(i) = {}

(***************************************************************************)
(* C2.  A Buy/Sell row whose Transaction Date or Settlement Date does not  *)
(* start with yyyy-mm-dd (or is empty) is a row-level error: no record,    *)
(* and the run goes on with the remaining rows.                            *)
(***************************************************************************)
C2_BadDateNotFatal ==
    \A i \in 1..Len(sheet_rows) :
        (sheet_rows[i].Action \in allowed_actions /\ ~DatesParse(sheet_rows[i])) =>
            /\ ~StoppedAt(i)
            /\ RecordsOfRow(i) = {}

(***************************************************************************)
(* C3.  An export of valid rows and rows with a missing or non-numeric     *)
(* Quantity, Price or Commission ends with exit status 0 and an output of  *)
(* the header plus one data row per valid row.                             *)
(***************************************************************************)
C3_BadNumberRunSucceeds ==
    (/\ Terminated
     /\ \A i \in 1..Len(sheet_rows) :
           ValidRow(sheet_rows[i]) \/ BadNumberRow(sheet_rows[i]))
    => /\ exit_status = 0
       /\ stdout.header = header_row
       /\ Len(stdout.rows) =
              Cardinality({i \in 1..Len(sheet_rows) : ValidRow(sheet_rows[i])})

(***************************************************************************)
(* C4.  A row whose Quantity is a number but not an integer yields no      *)
(* record: the quantity is never truncated to a share count.               *)
(***************************************************************************)
C4_FractionalQuantityRejected ==
    \A k \in 1..Len(txs) :
        IsNumber(sheet_rows[txs[k].row].Quantity)
            => IsIntegerQuantity(sheet_rows[txs[k].row].Quantity)

(***************************************************************************)
(* C5.  For every sequence of data rows, the records of the finished run   *)
(* are exactly one per valid Buy/Sell row, and an ignored-action row adds  *)
(* no record (and ends no run).                                            *)
(***************************************************************************)
C5_OneRecordPerValidRow ==
    Terminated =>
        \A i \in 1..Len(sheet_rows) :
            /\ ValidRow(sheet_rows[i]) => Cardinality(RecordsOfRow(i)) = 1
            /\ sheet_rows[i].Action \in ignored_actions =>
                   RecordsOfRow(i) = {} /\ ~StoppedAt(i)

(***************************************************************************)
(* C6.  Every record constructed has amount-per-share >= 0, shares >= 0    *)
(* and commission >= 0, whatever the signs in the source row.              *)
(***************************************************************************)
C6_RecordsNonNegative ==
    \A k \in 1..Len(txs) :
        /\ txs[k].amount_per_share >= 0
        /\ txs[k].num_shares >= 0
        /\ txs[k].commission >= 0

(***************************************************************************)
(* C7.  A Sell row whose Quantity is the negative integer -n yields a      *)
(* record with action SELL and n shares; a Buy row with Quantity n yields  *)
(* action BUY and n shares.                                                *)
(***************************************************************************)
C7_QuantitySignNormalized ==
    \A k \in 1..Len(txs) :
        LET row == sheet_rows[txs[k].row]
            q == PyFloat(row.Quantity).v
        IN  /\ (row.Action = "Sell" /\ IsIntegerQuantity(row.Quantity) /\ q < 0)
                  => txs[k].action = "SELL" /\ 10 * txs[k].num_shares = -q
            /\ (row.Action = "Buy" /\ IsIntegerQuantity(row.Quantity) /\ q > 0)
                  => txs[k].action = "BUY" /\ 10 * txs[k].num_shares = q

C7_Witness ==
    /\ pc = "done"
    /\ \E j, k \in 1..Len(txs) :
          /\ sheet_rows[txs[j].row].Action = "Sell"
          /\ sheet_rows[txs[j].row].Quantity = PyNum(-80)
          /\ txs[j].num_shares = 8
          /\ sheet_rows[txs[k].row].Action = "Buy"
          /\ txs[k].num_shares = 2

ParsedRows == {i \in 1..Len(sheet_rows) : RowResult(sheet_rows[i], i).kind = "tx"}

C9_RenderOrder ==
    pc = "done" =>
        /\ stdout.rows = [k \in 1..Len(txs) |-> RowOf(txs[k])]
        \* a permutation of the records parsed
        /\ Len(txs) = Cardinality(ParsedRows)
        /\ {txs[k].row : k \in 1..Len(txs)} = ParsedRows
        /\ \A k \in 1..Len(txs) :
              [txs[k] EXCEPT !.exchange_rate = PyNone]
                  = RowResult(sheet_rows[txs[k].row], txs[k].row).tx
        /\ \A j, k \in 1..Len(txs) :
              j < k =>
                 IF args.no_sort
                 THEN txs[j].row < txs[k].row
                 ELSE /\ ~StrLess(txs[k].date_and_time, txs[j].date_and_time)
                      /\ txs[j].date_and_time = txs[k].date_and_time
                             => txs[j].row < txs[k].row

\* A default-mode run in which the sort moved a record forward and kept two
\* records of equal key in place.
C9_Witness ==
    /\ pc = "done"
    /\ ~args.no_sort
    /\ Len(txs) = 3
    /\ txs[1].row = 3
    /\ txs[2].row = 1
    /\ txs[3].row = 2
    /\ txs[2].date_and_time = txs[3].date_and_time
    /\ txs[2] # txs[3]

(***************************************************************************)
(* C10 (as stated).  On a match of several trades, the benefit's           *)
(* sell-to-cover dates are those of the latest-dated trade of the subset,  *)
(* and no trade of the subset is in the returned leftover list.            *)
(***************************************************************************)
LatestOf(trades) ==
    CHOOSE t \in Range(trades) : \A u \in Range(trades) : u.tx_date <= t.tx_date

MatchedAbsentFromLeftover(b) ==
    bpc = "returned" => \A j \in 1..Len(matched[b]) : matched[b][j] \notin Range(remaining)

C10_DatesFromLatestTrade ==
    \A b \in 1..Len(matched) :
        Len(matched[b]) >= 2 =>
            /\ benefits[b].sell_to_cover_tx_date = PyDate(LatestOf(matched[b]).tx_date)
            /\ benefits[b].sell_to_cover_settle_date =
                   PyDate(LatestOf(matched[b]).settle_date)
            /\ MatchedAbsentFromLeftover(b)

(***************************************************************************)
(* C10 (amended).  On a match of several trades, the benefit's             *)
(* sell-to-cover dates are those of the first trade of the subset in the   *)
(* order of the trade list, and no trade of the subset is in the returned  *)
(* leftover list.                                                          *)
(***************************************************************************)
C10_DatesFromFirstTrade ==
    \A b \in 1..Len(matched) :
        Len(matched[b]) >= 2 =>
            /\ benefits[b].sell_to_cover_tx_date = PyDate(matched[b][1].tx_date)
            /\ benefits[b].sell_to_cover_settle_date =
                   PyDate(matched[b][1].settle_date)
            /\ MatchedAbsentFromLeftover(b)

C10_Witness ==
    /\ bpc = "returned"
    /\ \E b \in 1..Len(matched) :
          /\ Len(matched[b]) >= 2
          /\ matched[b][1].tx_date < matched[b][2].tx_date
          /\ benefits[b].sell_to_cover_tx_date = PyDate(matched[b][1].tx_date)
          /\ Len(remaining) < Len(trade_confs)

(***************************************************************************)
(* Vocabulary of the matching claims, stated on positions of the pool.     *)
(***************************************************************************)
\* The positions of `list` that hold a candidate trade of `benefit`: a SELL
\* of the benefit's security, dated within the window from its acquisition.
CandidatePositions(benefit, list) ==
    {i \in 1..Len(list) :
        /\ list[i].action = "SELL"
        /\ list[i].security = benefit.security
        /\ benefit.acquire_tx_date <= list[i].tx_date
        /\ list[i].tx_date <= benefit.acquire_tx_date + WindowDays}

RECURSIVE SharesAt(_, _)
SharesAt(list, positions) ==
    IF positions = {} THEN 0
    ELSE LET i == CHOOSE i \in positions : TRUE
         IN  list[i].shares + SharesAt(list, positions \ {i})

\* The non-empty sets of candidate positions whose shares sum to the
\* benefit's sell-to-cover share count.
MatchingSubsets(benefit, list) ==
    {S \in SUBSET CandidatePositions(benefit, list) :
        S # {} /\ SharesAt(list, S) = benefit.sell_to_cover_shares}

\* `list` restricted to the positions in `keep`, in order.
RECURSIVE Restrict(_, _, _)
Restrict(list, keep, from) ==
    IF from > Len(list) THEN <<>>
    ELSE (IF from \in keep THEN <<list[from]>> ELSE <<>>)
         \o Restrict(list, keep, from + 1)

Occurrences(list, t) == Cardinality({i \in 1..Len(list) : list[i] = t})

RECURSIVE Flatten(_)
Flatten(lists) ==
    IF lists = <<>> THEN <<>> ELSE Head(lists) \o Flatten(Tail(lists))

MultipleMessage(benefit) ==
    [text |-> "Error: Multiple trade combinations near",
     plan_note |-> None, date |-> benefit.acquire_tx_date]

NoMatchMessage(benefit) ==
    [text |-> "Error: Found no trades matching the sell-to-cover for",
     plan_note |-> benefit.plan_note, date |-> benefit.acquire_tx_date]

(***************************************************************************)
(* C11.  A benefit with exactly one matching subset gets its sell-to-cover *)
(* dates filled and the subset's trades leave the pool before the next     *)
(* benefit is handled; over any sequence of benefits no trade confirmation *)
(* is matched to more than one benefit, and the trades matched to a        *)
(* benefit sum to its sell-to-cover share count.                           *)
(***************************************************************************)
C11_UniqueMatchStep ==
    (bpc = "loop" /\ Cardinality(MatchingSubsets(benefits[b_i], pool)) = 1) =>
        LET S == CHOOSE S \in MatchingSubsets(benefits[b_i], pool) : TRUE
        IN  /\ matched' = Append(matched, Restrict(pool, S, 1))
            /\ pool' = Restrict(pool, (1..Len(pool)) \ S, 1)
            /\ benefits'[b_i].sell_to_cover_tx_date # PyNone
            /\ benefits'[b_i].sell_to_cover_settle_date # PyNone

C11_MatchedOnce ==
    /\ \A b \in 1..Len(matched) :
          matched[b] # <<>> =>
              SumShares(matched[b]) = benefits[b].sell_to_cover_shares
    /\ \A t \in Range(trade_confs) :
          Occurrences(Flatten(matched), t) + Occurrences(pool, t)
              = Occurrences(trade_confs, t)

C11_MatchConsumesTrades == [][C11_UniqueMatchStep]_vars /\ []C11_MatchedOnce

\* The second benefit finds nothing because the first took the only trade
\* that either could have used.
C11_Witness ==
    /\ bpc = "returned"
    /\ Len(matched) = 2
    /\ matched[1] # <<>>
    /\ matched[2] = <<>>
    /\ Cardinality(MatchingSubsets(benefits[2], trade_confs)) = 1
    /\ benefits[1].sell_to_cover_tx_date # PyNone
    /\ benefits[2].sell_to_cover_tx_date = PyNone

(***************************************************************************)
(* C12.  When two or more distinct subsets of a benefit's candidate trades *)
(* (of any sizes) sum to the sell-to-cover share count, the "multiple      *)
(* trade combinations" error is printed, no trade leaves the pool and the  *)
(* benefit's sell-to-cover dates stay unset.                               *)
(***************************************************************************)
C12_AmbiguousStep ==
    (bpc = "loop" /\ Cardinality(MatchingSubsets(benefits[b_i], pool)) >= 2) =>
        /\ printed' = Append(printed, MultipleMessage(benefits[b_i]))
        /\ pool' = pool
        /\ matched' = Append(matched, <<>>)
        /\ benefits' = benefits
        /\ benefits[b_i].sell_to_cover_tx_date = PyNone
        /\ benefits[b_i].sell_to_cover_settle_date = PyNone

C12_AmbiguousMatchRejected == [][C12_AmbiguousStep]_vars

\* The first benefit had matching subsets of two different sizes.
C12_Witness ==
    /\ Len(matched) >= 1
    /\ matched[1] = <<>>
    /\ \E S, T \in MatchingSubsets(benefits[1], trade_confs) :
          Cardinality(S) < Cardinality(T)
    /\ printed # <<>>
    /\ printed[1] = MultipleMessage(benefits[1])
    /\ benefits[1].sell_to_cover_tx_date = PyNone
    /\ b_i = 2 => pool = trade_confs

(***************************************************************************)
(* C13.  When no non-empty subset of a benefit's candidate trades sums to  *)
(* its sell-to-cover share count (the candidate list may be empty), the    *)
(* error "no trades matching the sell-to-cover for <plan> <date>" is       *)
(* printed, the pool and the benefit's dates are unchanged, and the loop   *)
(* goes on to the next benefit.                                            *)
(***************************************************************************)
C13_NoMatchStep ==
    (bpc = "loop" /\ MatchingSubsets(benefits[b_i], pool) = {}) =>
        /\ printed' = Append(printed, NoMatchMessage(benefits[b_i]))
        /\ pool' = pool
        /\ matched' = Append(matched, <<>>)
        /\ benefits' = benefits
        /\ benefits[b_i].sell_to_cover_tx_date = PyNone
        /\ b_i' = b_i + 1
        /\ bpc' = IF b_i < Len(benefits) THEN "loop" ELSE "return"

C13_NoMatchReported == [][C13_NoMatchStep]_vars

\* The first benefit had no candidate at all, and the second was matched.
C13_Witness ==
    /\ bpc = "returned"
    /\ Len(matched) = 2
    /\ CandidatePositions(benefits[1], trade_confs) = {}
    /\ trade_confs # <<>>
    /\ printed = <<NoMatchMessage(benefits[1])>>
    /\ benefits[1].sell_to_cover_tx_date = PyNone
    /\ matched[2] # <<>>
    /\ benefits[2].sell_to_cover_tx_date # PyNone

(***************************************************************************)
(* C14.  When the lines of a securities-owned page run out before the      *)
(* state machine has reached done, parse_pdf raises and returns nothing:   *)
(* not the entries completed on that page, nor those of earlier pages.     *)
(***************************************************************************)
C14_PageNotDoneStep ==
    (fpc = "lines" /\ line_i > Len(pages[page_i].lines) /\ state # "done") =>
        /\ fpc' = "raised"
        /\ fexc'.type = "AssertionError"
        /\ fret' = NoReturn

C14_NothingReturned ==
    /\ fpc = "raised" => fret = NoReturn
    /\ fret.returned => fpc = "returned"
    /\ (fpc \in {"pages", "returned"} /\ state # None) => state = "done"

C14_UnfinishedPageIsFatal == [][C14_PageNotDoneStep]_vars /\ []C14_NothingReturned

\* The second page lacks the total line after one complete security; the
\* first page had completed its entries.
C14_Witness ==
    /\ fpc = "raised"
    /\ fexc = PageEndCheck("marketValue")
    /\ page_i = 2
    /\ Len(fmvs) >= 3
    /\ state = "marketValue"
    /\ fret = NoReturn

(***************************************************************************)
(* C15.  to_decimal keeps the sign of the line: a line with a leading '-'  *)
(* converts to a negative Decimal, a line without one to a non-negative    *)
(* Decimal, in both cases of the magnitude the line's digits denote.       *)
(***************************************************************************)
C15_SignKept ==
    \A k \in 1..Len(converted) :
        LET line == converted[k][1]
            d == converted[k][2]
        IN  /\ d.coef = DigitsValue(SelectSeq(line, IsDigit), 0)
            /\ line[1] = "-" => (d.neg \/ d.coef = 0)
            /\ line[1] # "-" => ~d.neg

(***************************************************************************)
(* C16.  render_errors writes nothing and returns False when the error     *)
(* list is empty; otherwise it writes an empty line, the line "Errors:"    *)
(* and one line " - <message>" per error, in the order the errors were     *)
(* appended, and returns True.                                             *)
(***************************************************************************)
C16_ErrorsRendered ==
    /\ lpc # "done" => lib_stderr = <<>>
    /\ lpc = "done" =>
          IF lib_errors = <<>>
          THEN lib_stderr = <<>> /\ lib_ret = FALSE
          ELSE /\ Len(lib_stderr) = Len(lib_errors) + 2
               /\ lib_stderr[1] = <<"">>
               /\ lib_stderr[2] = <<"Errors:">>
               /\ \A k \in 1..Len(lib_errors) :
                     lib_stderr[k + 2] = <<" -", lib_errors[k]>>
               /\ lib_ret = TRUE

C16_Witness ==
    /\ lpc = "done"
    /\ Len(lib_errors) = 2
    /\ lib_errors[1] # lib_errors[2]
    /\ lib_stderr[3] = <<" -", lib_errors[1]>>
    /\ lib_ret = TRUE

(***************************************************************************)
(* C17.  In every rendered row the Exchange Rate field is empty exactly    *)
(* when the record has no exchange rate, and is the decimal text of the    *)
(* rate for every record that has one, a rate of 0 included.               *)
(***************************************************************************)
C17_RateRendered ==
    pc = "done" =>
        /\ Len(stdout.rows) = Len(txs)
        /\ \A k \in 1..Len(txs) :
              LET field == stdout.rows[k][Len(stdout.rows[k])]
              IN  /\ field = <<>> <=> txs[k].exchange_rate = PyNone
                  /\ txs[k].exchange_rate # PyNone =>
                        field = StrFloat(txs[k].exchange_rate.v)

(***************************************************************************)
(* C18.  The header row is the 11 names Security, Trade Date, Settlement   *)
(* Date, Action, Amount/Share, Shares, Commission, Currency, Affiliate,    *)
(* Memo, Exchange Rate in that order, and every row has as many fields as  *)
(* the header (here: in the export converter's renderer).                  *)
(***************************************************************************)
C18_ElevenColumns ==
    pc = "done" =>
        /\ stdout.header =
              <<"Security", "Trade Date", "Settlement Date", "Action",
                "Amount/Share", "Shares", "Commission", "Currency", "Affiliate",
                "Memo", "Exchange Rate">>
        /\ \A k \in 1..Len(stdout.rows) : Len(stdout.rows[k]) = 11

(***************************************************************************)
(* Vocabulary of the FX claims, stated on the positions of the sheet.  The *)
(* FXT rows of one date are paired off in row order; a row left over at    *)
(* the end of its date's rows has no counterpart.                          *)
(***************************************************************************)
FxtOfDate(i) ==
    {j \in 1..Len(fx_rows) :
        fx_rows[j].action = "FXT" /\ fx_rows[j].date = fx_rows[i].date}

IsFirstOfPair(i) ==
    /\ fx_rows[i].action = "FXT"
    /\ Cardinality({j \in FxtOfDate(i) : j <= i}) % 2 = 1

Counterparts(i) == {j \in FxtOfDate(i) : j > i}

Unmatched(i) == IsFirstOfPair(i) /\ Counterparts(i) = {}

\* Rows i < j are the two legs of a valid pair.
ValidPair(i, j) ==
    /\ IsFirstOfPair(i)
    /\ j \in Counterparts(i)
    /\ \A m \in Counterparts(i) : j <= m
    /\ \/ fx_rows[i].amount > 0 /\ fx_rows[j].amount < 0
       \/ fx_rows[i].amount < 0 /\ fx_rows[j].amount > 0
    /\ \E c \in {i, j} : \E f \in {i, j} :
          /\ c # f
          /\ fx_rows[c].currency = "CAD"
          /\ fx_rows[f].currency \in SupportedCurrencies

\* The positions of the output list whose record comes from sheet position i.
RecordsFrom(i) == {k \in 1..Len(fx_txs) : (i + 1) \in fx_txs[k].rows}

Eligible(benefit, trade) ==
    /\ trade.action = "SELL"
    /\ trade.security = benefit.security
    /\ benefit.acquire_tx_date <= trade.tx_date
    /\ trade.tx_date <= benefit.acquire_tx_date + WindowDays

C21_CandidateStep ==
    bpc = "loop" =>
        LET benefit == benefits[b_i]
            now == matched'[Len(matched')]
        IN  /\ \A k \in 1..Len(now) : Eligible(benefit, now[k])
            /\ \A t \in Range(pool) :
                  ~Eligible(benefit, t) => Occurrences(pool', t) = Occurrences(pool, t)
            /\ (printed' # printed
                /\ printed'[Len(printed')] = MultipleMessage(benefit)) =>
                  Cardinality(MatchingSubsets(benefit, pool)) >= 2

C21_OnlyCandidatesMatch == [][C21_CandidateStep]_vars

\* The first benefit was matched to its one eligible trade although the
\* pool also held a trade of another security and a BUY (or a trade out of
\* the window) of the same share count.
C21_Witness ==
    /\ b_i = 2
    /\ Len(matched[1]) = 1
    /\ Len(pool) = 2
    /\ \A k \in 1..2 :
          /\ ~Eligible(benefits[1], pool[k])
          /\ pool[k].shares = benefits[1].sell_to_cover_shares
    /\ pool[1].security # benefits[1].security
    /\ pool[2].security = benefits[1].security

(***************************************************************************)
(* C22.  In the FMV line state machine the next state is the target of the *)
(* first pair of the state's list whose matcher accepts the line, and the  *)
(* state stays when none accepts; so in marketValue the line "100.0" goes  *)
(* to done, done is entered only from marketValue, marketValue only from   *)
(* allocation, and allocation only from security.                          *)
(***************************************************************************)
LineHandled == fpc = "lines" /\ line_i <= Len(pages[page_i].lines)

C22_TransitionStep ==
    LineHandled =>
        LET line == Strip(pages[page_i].lines[line_i])
            pairs == STATES[state]
            accepting == {k \in 1..Len(pairs) : match_line(pairs[k][1], line)}
            first == CHOOSE k \in accepting : \A m \in accepting : k <= m
        IN  /\ state' = IF accepting = {} THEN state ELSE pairs[first][2]
            /\ (state = "marketValue" /\ line = LineHundred) => state' = "done"
            /\ state' = "done" => state = "marketValue"
            /\ state' = "marketValue" => state = "allocation"
            /\ (state' = "allocation" /\ state # "allocation") => state = "security"

C22_FirstMatchWins == [][C22_TransitionStep]_vars

\* The line "100.0" after a complete record, which the second matcher of
\* marketValue accepts as well, has ended the table.
C22_Witness ==
    /\ fpc = "page_end"
    /\ state = "done"
    /\ conv = StrMatcher(LineHundred)
    /\ pages[page_i].lines[line_i] = LineHundred
    /\ match_line(NegReMatcher(SEC_PAT), LineHundred)
    /\ Len(fmvs) = 1

(***************************************************************************)
(* C23.  Each entry into state marketValue emits exactly one FMV entry,    *)
(* built from a non-empty accumulated name, a set allocation and a set     *)
(* market value, and resets the accumulator; the entries are as many as    *)
(* the completed (name, allocation, market value) triples, and each holds  *)
(* the values converted for its own triple.                                *)
(***************************************************************************)
C23_EmitStep ==
    (LineHandled /\ state' = "marketValue") =>
        /\ accum.security # <<>>
        /\ accum.allocation # DecNone
        /\ Len(fmvs') = Len(fmvs) + 1
        /\ SubSeq(fmvs', 1, Len(fmvs)) = fmvs
        /\ fmvs'[Len(fmvs')].allocation = accum.allocation
        /\ fmvs'[Len(fmvs')].fmv # DecNone
        /\ accum' = newParseState

C23_OnePerTriple ==
    /\ Len(converted) = 2 * Len(fmvs) + (IF accum.allocation = DecNone THEN 0 ELSE 1)
    /\ accum.fmv = DecNone
    /\ \A k \in 1..Len(fmvs) :
          /\ fmvs[k].allocation = converted[2 * k - 1][2]
          /\ fmvs[k].fmv = converted[2 * k][2]

C23_OneEntryPerRecord == [][C23_EmitStep]_vars /\ []C23_OnePerTriple

(***************************************************************************)
(* C24.  Whenever a line is handled, the two accumulator assertions hold:  *)
(* the allocation is unset when a line is handled in state allocation, and *)
(* the market value is unset when a line is handled in state marketValue.  *)
(***************************************************************************)
C24_AssertionsStep ==
    LineHandled =>
        /\ state' = "allocation" => accum.allocation = DecNone
        /\ state' = "marketValue" => accum.fmv = DecNone

C24_AssertionsHold ==
    [][C24_AssertionsStep]_vars
    /\ [](fexc.type = "AssertionError" =>
            fexc.text \notin {"already have allocation", "accum.fmv is None"})

(***************************************************************************)
(* C25.  amend_benefit_sales leaves the caller's trade list as it was, and *)
(* the list it returns is that list without the trades matched to some     *)
(* benefit, the others in their original order: leftover and matched       *)
(* trades together are the original trades, none lost, none duplicated.    *)
(***************************************************************************)
C25_Leftover ==
    bpc = "returned" =>
        /\ \E keep \in SUBSET (1..Len(trade_confs)) :
              remaining = Restrict(trade_confs, keep, 1)
        /\ \A t \in Range(trade_confs) \cup Range(remaining) \cup Range(Flatten(matched)) :
              Occurrences(remaining, t) + Occurrences(Flatten(matched), t)
                  = Occurrences(trade_confs, t)

C25_CallerListKept == [][trade_confs' = trade_confs]_vars /\ []C25_Leftover

\* The first of three trades was matched; the two others are returned in
\* their order.
C25_Witness ==
    /\ bpc = "returned"
    /\ Len(trade_confs) = 3
    /\ Flatten(matched) = <<trade_confs[1]>>
    /\ remaining = <<trade_confs[2], trade_confs[3]>>
    /\ trade_confs[2] # trade_confs[3]

====
